---- MODULE Spec2Model ----
(***************************************************************************)
(* Model of the BenchmarkLeaderboard cog                                   *)
(* (src/benchmarkleaderboard/benchmarkleaderboard.py).                     *)
(*                                                                         *)
(* The cog keeps `self.leaderboards`, a dict  category -> {user id ->      *)
(* score}, mirrors it to the host configuration store on every mutation    *)
(* and renders it on request.  Command handlers are coroutines on a single *)
(* event loop: the code between two `await`s runs atomically, and each     *)
(* action below is one such stretch of a handler.                          *)
(*                                                                         *)
(* Python dicts are insertion ordered, so a dict is modelled as a sequence *)
(* of <<key, value>> entries.  A user id is an int in the running cog and  *)
(* a str in the persisted JSON document; a key is therefore a pair         *)
(* <<"int", n>> or <<"str", n>>, the second standing for the decimal       *)
(* string of n.  Scores are floats: a finite range of numbers and NaN,     *)
(* which the float converter of the command framework accepts ("nan") and  *)
(* against which every comparison is false.                                *)
(***************************************************************************)
EXTENDS Integers, Sequences, FiniteSets, TLC

\* ------------------------------------------------------------------ bounds
NUsers == 2
MaxScore == 2
NTasks == 3
MaxLoads == 1
ViewMaxEntries == 11
ViewMaxNaN == 1

\* ------------------------------------------------------- program constants
ViewLimit == 10
LeaderboardLimit == 3

\* `None`, as returned by dict.get for a missing key; no score equals it.
None == 0 - 1
\* float("nan").
NaN == 0 - 2

Users == 1..NUsers
Scores == (1..MaxScore) \cup {NaN}
Tasks == 1..NTasks
Categories == {"cpu", "gpu"}
ViewScores == {1, 2, NaN}

\* An absent optional `user` argument of the delete command.
NoUser == 0
\* The slot a deleted key leaves in a dict's entry table.
Tomb == "<dummy>"

Min(a, b) == IF a < b THEN a ELSE b
Max(a, b) == IF a > b THEN a ELSE b

\* a < b and a > b on floats: false when either side is NaN.
Lt(a, b) == a # NaN /\ b # NaN /\ a < b
Gt(a, b) == a # NaN /\ b # NaN /\ a > b

\* ------------------------------------------------------------ dict helpers
IntKey(u) == <<"int", u>>
\* str(k): the decimal string of an int id, a str unchanged.
StrKey(k) == <<"str", k[2]>>
UserOf(k) == k[2]

Keys(d) == {d[i][1] : i \in 1..Len(d)}
Has(d, k) == k \in Keys(d)
IndexOf(d, k) == CHOOSE i \in 1..Len(d) : d[i][1] = k
Get(d, k) == IF Has(d, k) THEN d[IndexOf(d, k)][2] ELSE None
DictSet(d, k, v) ==
    IF Has(d, k) THEN [d EXCEPT ![IndexOf(d, k)] = <<k, v>>]
    ELSE Append(d, <<k, v>>)
DictDel(d, k) == SelectSeq(d, LAMBDA e : e[1] # k)

\* The category dict is iterated across awaits (benchmark_leaderboard), so
\* its entry table is kept as CPython keeps it: a deleted key leaves a dummy
\* slot and a new key takes the slot after the last one.  dk_usable counts
\* the slots still free; a new key that finds none has the table rebuilt
\* first (dictresize): the live entries in order, no dummies, in a table
\* sized for three times the live keys.

\* n | 8 on non-negative integers.
BitOr8(n) == IF (n \div 8) % 2 = 1 THEN n ELSE n + 8

RECURSIVE PowerOfTwoFrom(_, _)
PowerOfTwoFrom(p, n) == IF p >= n THEN p ELSE PowerOfTwoFrom(2 * p, n)

\* The hash table size dictresize picks for `used` live keys
\* (calculate_log2_keysize of used * 3): the least power of two, from 8 on,
\* that is no less than (used * 3) | 8.
KeysSize(used) == PowerOfTwoFrom(8, BitOr8(used * 3))
\* USABLE_FRACTION: the entry slots of a table of that size.
UsableFraction(size) == (2 * size) \div 3
CatLive(lb) == SelectSeq(lb, LAMBDA e : e[1] # Tomb)
CatUsed(lb) == Len(CatLive(lb))
CatKeys(lb) == Keys(lb) \ {Tomb}
CatHas(lb, c) == c \in CatKeys(lb)
CatGet(lb, c) == lb[IndexOf(lb, c)][2]
CatSet(lb, usable, c, v) ==
    IF CatHas(lb, c) THEN [lb EXCEPT ![IndexOf(lb, c)] = <<c, v>>]
    ELSE IF usable <= 0 THEN Append(CatLive(lb), <<c, v>>)
    ELSE Append(lb, <<c, v>>)
\* The free slots left after lb[c] = v.
CatUsable(lb, usable, c) ==
    IF CatHas(lb, c) THEN usable
    ELSE IF usable <= 0
    THEN UsableFraction(KeysSize(CatUsed(lb))) - CatUsed(lb) - 1
    ELSE usable - 1
\* The free slots of a dict built by inserting n keys into an empty one,
\* as the dict read back from the configuration store is.
RECURSIVE LoadedUsable(_)
LoadedUsable(n) ==
    IF n = 0 THEN UsableFraction(KeysSize(0))
    ELSE IF LoadedUsable(n - 1) <= 0
    THEN UsableFraction(KeysSize(n - 1)) - (n - 1) - 1
    ELSE LoadedUsable(n - 1) - 1
CatDel(lb, c) == [lb EXCEPT ![IndexOf(lb, c)] = <<Tomb, <<>>>>]

\* ------------------------------------------------------------- persistence
\* Config.Value.set casts every dict key to str before handing the value to
\* the driver (and a JSON object has string keys only): entries are visited
\* in order and ret[str(k)] = v, so of two keys with one string the first
\* keeps its place and the last keeps its value.
RECURSIVE StrKeyInner(_)
StrKeyInner(d) ==
    IF d = <<>> THEN <<>>
    ELSE LET front == SubSeq(d, 1, Len(d) - 1)
             last == d[Len(d)]
         IN DictSet(StrKeyInner(front), StrKey(last[1]), last[2])

StrKeyDict(lb) ==
    LET live == CatLive(lb)
    IN [i \in 1..Len(live) |-> <<live[i][1], StrKeyInner(live[i][2])>>]

\* ----------------------------------------------------------------- ranking
\* sorted(items, key=score, reverse=True) on fewer than 64 items, as
\* list.sort does it: the list is reversed, sorted ascending and reversed
\* again.  The ascending sort takes the run the list starts with (reversed
\* when strictly descending) and inserts the remaining items one by one at
\* the place a binary search gives.  The only comparison is float <.
Reverse(s) == [i \in 1..Len(s) |-> s[Len(s) + 1 - i]]

\* count_run: the last index of the run that starts the list.
RECURSIVE RunEnd(_, _, _)
RunEnd(s, i, descending) ==
    IF i = Len(s) THEN i
    ELSE IF Lt(s[i + 1][2], s[i][2]) = descending THEN RunEnd(s, i + 1, descending)
    ELSE i

\* binarysort: where the pivot goes among s[l..r-1].
RECURSIVE BinaryPos(_, _, _, _)
BinaryPos(s, pivot, l, r) ==
    IF l >= r THEN l
    ELSE LET p == l + ((r - l) \div 2)
         IN IF Lt(pivot[2], s[p][2]) THEN BinaryPos(s, pivot, l, p)
            ELSE BinaryPos(s, pivot, p + 1, r)

\* binarysort: s[1..start-1] is the run; the items from start on are inserted.
RECURSIVE BinarySort(_, _)
BinarySort(s, start) ==
    IF start > Len(s) THEN s
    ELSE LET pivot == s[start]
             l == BinaryPos(s, pivot, 1, start)
         IN BinarySort([i \in 1..Len(s) |->
                           IF i < l \/ i > start THEN s[i]
                           ELSE IF i = l THEN pivot
                           ELSE s[i - 1]],
                       start + 1)

ListSort(s) ==
    IF Len(s) < 2 THEN s
    ELSE LET descending == Lt(s[2][2], s[1][2])
             n == RunEnd(s, 2, descending)
             run == IF descending THEN Reverse(SubSeq(s, 1, n)) ELSE SubSeq(s, 1, n)
         IN BinarySort(run \o SubSeq(s, n + 1, Len(s)), n + 1)

SortDesc(items) == Reverse(ListSort(Reverse(items)))

Take(s, n) == SubSeq(s, 1, Min(n, Len(s)))

\* sorted_scores[:n]
Top(scores, n) == Take(SortDesc(scores), n)

\* previous_score is None or score > previous_score
Accepts(previous_score, score) ==
    previous_score = None \/ Gt(score, previous_score)

\* The scores the store holds for user u in category c, under whichever key.
UserScores(lb, c, u) ==
    IF ~CatHas(lb, c) THEN {}
    ELSE LET d == CatGet(lb, c)
         IN {d[i][2] : i \in {j \in 1..Len(d) : UserOf(d[j][1]) = u}}

\* ------------------------------------------------------------------- state
VARIABLES
    leaderboards,   \* self.leaderboards: the category dict's entry table
    dk_usable,      \* the entry slots of that table still free
    doc,            \* the persisted document (config.leaderboards on disk)
    tasks,          \* one record per command invocation
    writeQ,         \* invocations awaiting config.leaderboards.set, in call order
    nloads,         \* restarts (cog_load runs) so far
    submitted       \* history: greatest number submitted per (category, user)
                    \* since that pair was last deleted (0: none); a restart
                    \* keeps what the persisted document recorded

vars == <<leaderboards, dk_usable, doc, tasks, writeQ, nloads, submitted>>

IdleTask ==
    [pc |-> "idle", cmd |-> "none", c |-> "", u |-> NoUser, s |-> 0,
     snap |-> <<>>, written |-> FALSE, ack |-> "none",
     sorted |-> <<>>, idx |-> 0, entries |-> <<>>,
     itpos |-> 0, itlen |-> 0, itused |-> 0, processed |-> {}, embed |-> <<>>,
     raw |-> {}, views |-> {}, consistent |-> TRUE,
     reply |-> "none", err |-> "none"]

Init ==
    /\ leaderboards = <<>>
    /\ dk_usable = LoadedUsable(0)
    /\ doc = <<>>
    /\ tasks = [t \in Tasks |-> IdleTask]
    /\ writeQ = <<>>
    /\ nloads = 0
    /\ submitted = [p \in Categories \X Users |-> 0]

\* A slot holds one command invocation from its start to its reply (or its
\* exception) and keeps the outcome afterwards; slots are taken in order.
CanStart(t) ==
    /\ tasks[t].cmd = "none"
    /\ IF t = 1 THEN TRUE ELSE tasks[t - 1].cmd # "none"

\* What benchmark_leaderboard would render of a store read at one instant:
\* each non-empty category with its three best entries.
View(lb) ==
    LET live == CatLive(lb)
    IN {<<live[i][1], Top(live[i][2], LeaderboardLimit)>> :
            i \in {j \in 1..Len(live) : live[j][2] # <<>>}}

\* Every leaderboard query in flight sees the store's new value.
Observe(ts, lb) ==
    [t \in Tasks |->
        IF ts[t].pc = "lb_fetch" THEN [ts[t] EXCEPT !.views = @ \cup {View(lb)}]
        ELSE ts[t]]

\* ------------------------------------------------------------ benchmark add
\* Lines 25-33 up to the await of config.leaderboards.set, or lines 25-40
\* when the score is not higher.
AddStart(t, c, u, s) ==
    /\ CanStart(t)
    /\ LET lb1 == IF CatHas(leaderboards, c) THEN leaderboards
                  ELSE CatSet(leaderboards, dk_usable, c, <<>>)
           scores == CatGet(lb1, c)
           previous_score == Get(scores, IntKey(u))
           lb2 == CatSet(lb1, dk_usable, c, DictSet(scores, IntKey(u), s))
           r == [IdleTask EXCEPT !.cmd = "add", !.c = c, !.u = u, !.s = s]
       IN IF Accepts(previous_score, s)
          THEN /\ leaderboards' = lb2
               /\ tasks' = Observe([tasks EXCEPT ![t] =
                      [r EXCEPT !.pc = "persist", !.snap = StrKeyDict(lb2),
                                !.ack = IF previous_score = None THEN "added"
                                        ELSE "high_score"]], lb2)
               /\ writeQ' = Append(writeQ, t)
          ELSE /\ leaderboards' = lb1
               /\ tasks' = Observe([tasks EXCEPT ![t] =
                      [r EXCEPT !.reply = "rejected"]], lb1)
               /\ writeQ' = writeQ
    /\ dk_usable' = CatUsable(leaderboards, dk_usable, c)
    /\ submitted' = [submitted EXCEPT ![<<c, u>>] = IF s = NaN THEN @ ELSE Max(@, s)]
    /\ UNCHANGED <<doc, nloads>>

\* --------------------------------------------------------- benchmark delete
\* The early return forgotten for the whole-category form: the store is
\* written although nothing was deleted.
DeleteMissingPersists(t, c, u) ==
    /\ ~CatHas(leaderboards, c)
    /\ tasks' = [tasks EXCEPT ![t] =
           [IdleTask EXCEPT !.cmd = "delete", !.c = c, !.u = u,
                            !.pc = IF u = NoUser THEN "persist" ELSE "idle",
                            !.snap = IF u = NoUser THEN StrKeyDict(leaderboards)
                                     ELSE <<>>,
                            !.ack = IF u = NoUser THEN "deleted_category"
                                    ELSE "none",
                            !.reply = IF u = NoUser THEN "none"
                                      ELSE "no_leaderboard"]]
    /\ writeQ' = IF u = NoUser THEN Append(writeQ, t) ELSE writeQ
    /\ UNCHANGED <<leaderboards, dk_usable, submitted>>

\* Lines 100-102: no such category.
DeleteMissing(t, c, u) ==
    /\ ~CatHas(leaderboards, c)
    /\ tasks' = [tasks EXCEPT ![t] =
           [IdleTask EXCEPT !.cmd = "delete", !.c = c, !.u = u,
                            !.reply = "no_leaderboard"]]
    /\ UNCHANGED <<leaderboards, dk_usable, writeQ, submitted>>

\* Lines 104-111: a user was given.
DeleteUser(t, c, u) ==
    /\ CatHas(leaderboards, c)
    /\ u # NoUser
    /\ LET scores == CatGet(leaderboards, c)
           lb2 == CatSet(leaderboards, dk_usable, c, DictDel(scores, IntKey(u)))
           r == [IdleTask EXCEPT !.cmd = "delete", !.c = c, !.u = u]
       IN IF Has(scores, IntKey(u))
          THEN /\ leaderboards' = lb2
               /\ tasks' = Observe([tasks EXCEPT ![t] =
                      [r EXCEPT !.pc = "persist", !.snap = StrKeyDict(lb2),
                                !.ack = "deleted_user"]], lb2)
               /\ writeQ' = Append(writeQ, t)
               /\ submitted' = [submitted EXCEPT ![<<c, u>>] = 0]
          ELSE /\ tasks' = [tasks EXCEPT ![t] = [r EXCEPT !.reply = "no_score"]]
               /\ UNCHANGED <<leaderboards, dk_usable, writeQ, submitted>>

\* Lines 112-116: the whole category.
DeleteCategory(t, c, u) ==
    /\ CatHas(leaderboards, c)
    /\ u = NoUser
    /\ LET lb2 == CatDel(leaderboards, c)
       IN /\ leaderboards' = lb2
          /\ tasks' = Observe([tasks EXCEPT ![t] =
                 [IdleTask EXCEPT !.cmd = "delete", !.c = c, !.u = u,
                                  !.pc = "persist", !.snap = StrKeyDict(lb2),
                                  !.ack = "deleted_category"]], lb2)
          /\ writeQ' = Append(writeQ, t)
          /\ submitted' = [p \in Categories \X Users |->
                              IF p[1] = c THEN 0 ELSE submitted[p]]

DeleteStart(t, c, u) ==
    /\ CanStart(t)
    /\ \/ DeleteMissing(t, c, u)
       \/ DeleteUser(t, c, u)
       \/ DeleteCategory(t, c, u)
    /\ UNCHANGED <<dk_usable, doc, nloads>>

\* ------------------------------------------- await config.leaderboards.set
\* The driver writes under a FIFO lock: writes land in call order.
PersistOk(t) ==
    /\ writeQ # <<>> /\ Head(writeQ) = t
    /\ tasks[t].pc = "persist"
    /\ doc' = tasks[t].snap
    /\ writeQ' = Tail(writeQ)
    /\ tasks' = [tasks EXCEPT ![t] = [@ EXCEPT !.pc = "send", !.written = TRUE]]
    /\ UNCHANGED <<leaderboards, dk_usable, nloads, submitted>>

\* The write's exception swallowed: the handler goes on to its reply.
PersistFailIgnored(t) ==
    /\ writeQ # <<>> /\ Head(writeQ) = t
    /\ tasks[t].pc = "persist"
    /\ writeQ' = Tail(writeQ)
    /\ tasks' = [tasks EXCEPT ![t] = [@ EXCEPT !.pc = "send"]]
    /\ UNCHANGED <<leaderboards, dk_usable, doc, nloads, submitted>>

\* The write raises: the exception leaves the handler; nothing is undone
\* and no reply is sent.
PersistFail(t) ==
    /\ writeQ # <<>> /\ Head(writeQ) = t
    /\ tasks[t].pc = "persist"
    /\ writeQ' = Tail(writeQ)
    /\ tasks' = [tasks EXCEPT ![t] =
           [@ EXCEPT !.pc = "idle", !.snap = <<>>, !.ack = "none",
                     !.err = "PersistenceFailure"]]
    /\ UNCHANGED <<leaderboards, dk_usable, doc, nloads, submitted>>

\* Lines 35-38, 109, 116: the success reply.
SendAck(t) ==
    /\ tasks[t].pc = "send"
    /\ tasks' = [tasks EXCEPT ![t] =
           [@ EXCEPT !.pc = "idle", !.snap = <<>>, !.reply = tasks[t].ack]]
    /\ UNCHANGED <<leaderboards, dk_usable, doc, writeQ, nloads, submitted>>

\* ----------------------------------------------------------- benchmark view
LookupOutcomes == {"ok", "NotFound", "HTTPException"}

\* Lines 48-57: the ranked list, or the "No scores found" reply.
ViewStart(t, c) ==
    /\ CanStart(t)
    /\ LET r == [IdleTask EXCEPT !.cmd = "view", !.c = c]
       IN IF ~CatHas(leaderboards, c) \/ CatGet(leaderboards, c) = <<>>
          THEN tasks' = [tasks EXCEPT ![t] = [r EXCEPT !.reply = "no_scores"]]
          ELSE tasks' = [tasks EXCEPT ![t] =
                   [r EXCEPT !.pc = "view_fetch", !.idx = 1,
                             !.sorted = Top(CatGet(leaderboards, c), ViewLimit)]]
    /\ UNCHANGED <<leaderboards, dk_usable, doc, writeQ, nloads, submitted>>

\* Lines 65-77: one awaited bot.fetch_user; after the last one the embed is
\* sent.  Only discord.NotFound is caught.
ViewFetch(t, outcome) ==
    /\ tasks[t].pc = "view_fetch"
    /\ LET r == tasks[t]
           e == r.sorted[r.idx]
           fields == IF outcome = "ok"
                     THEN Append(r.entries, <<r.idx, e[1], e[2]>>)
                     ELSE r.entries
       IN tasks' = [tasks EXCEPT ![t] =
              IF outcome = "HTTPException"
              THEN [IdleTask EXCEPT !.cmd = "view", !.c = r.c, !.err = "HTTPException"]
              ELSE IF r.idx < Len(r.sorted)
              THEN [r EXCEPT !.idx = @ + 1, !.entries = fields]
              ELSE [IdleTask EXCEPT !.cmd = "view", !.c = r.c,
                                    !.entries = fields, !.reply = "embed"]]
    /\ UNCHANGED <<leaderboards, dk_usable, doc, writeQ, nloads, submitted>>

\* -------------------------------------------------------- benchmark history
\* Lines 125-150; `user or ctx.author`.
History(t, author, user) ==
    /\ CanStart(t)
    /\ LET target == IF user # NoUser THEN user ELSE author
           live == CatLive(leaderboards)
           mine == SelectSeq(live, LAMBDA e : Has(e[2], IntKey(target)))
           user_scores == [i \in 1..Len(mine) |->
                              <<mine[i][1], Get(mine[i][2], IntKey(target))>>]
           r == [IdleTask EXCEPT !.cmd = "history", !.u = target]
       IN tasks' = [tasks EXCEPT ![t] =
              IF user_scores = <<>> THEN [r EXCEPT !.reply = "no_history"]
              ELSE [r EXCEPT !.reply = "embed", !.embed = user_scores]]
    /\ UNCHANGED <<leaderboards, dk_usable, doc, writeQ, nloads, submitted>>

\* ---------------------------------------------------- benchmark leaderboard
\* The first live slot of the entry table after position pos (0: none).
NextSlot(lb, pos) ==
    LET later == {i \in 1..Len(lb) : i > pos /\ lb[i][1] # Tomb}
    IN IF later = {} THEN 0 ELSE CHOOSE i \in later : \A j \in later : i <= j

\* Lines 169-177 and 195: `for benchmark_type, scores in
\* self.leaderboards.items()` runs on the live dict.  The dict iterator
\* raises RuntimeError when the dict's size differs from the size at the
\* start, or when it finds more entries than that size; it then skips the
\* categories without scores and stops at the first await of fetch_user, or
\* the loop ends and the embed is sent.
RECURSIVE LbAdvance(_, _)
LbAdvance(lb, r) ==
    LET i == NextSlot(lb, r.itpos)
        failed == [IdleTask EXCEPT !.cmd = "leaderboard", !.err = "RuntimeError"]
    IN IF r.itused # CatUsed(lb) THEN failed
       ELSE IF i = 0
       THEN [IdleTask EXCEPT !.cmd = "leaderboard", !.reply = "embed",
                             !.embed = r.embed,
                             !.consistent = (r.raw \in r.views)]
       ELSE IF r.itlen = 0 THEN failed
       ELSE LET r1 == [r EXCEPT !.itpos = i, !.itlen = @ - 1]
                c == lb[i][1]
                scores == lb[i][2]
            IN IF scores = <<>> \/ c \in r.processed THEN LbAdvance(lb, r1)
               ELSE [r1 EXCEPT !.pc = "lb_fetch", !.c = c, !.idx = 1,
                               !.entries = <<>>,
                               !.sorted = Top(scores, LeaderboardLimit),
                               !.raw = @ \cup {<<c, Top(scores, LeaderboardLimit)>>}]

\* Lines 158-177.
LeaderboardStart(t) ==
    /\ CanStart(t)
    /\ LET r == [IdleTask EXCEPT !.cmd = "leaderboard"]
       IN IF CatUsed(leaderboards) = 0
          THEN tasks' = [tasks EXCEPT ![t] = [r EXCEPT !.reply = "none_recorded"]]
          ELSE tasks' = [tasks EXCEPT ![t] =
                   LbAdvance(leaderboards,
                             [r EXCEPT !.itlen = CatUsed(leaderboards),
                                       !.itused = CatUsed(leaderboards),
                                       !.views = {View(leaderboards)}])]
    /\ UNCHANGED <<leaderboards, dk_usable, doc, writeQ, nloads, submitted>>

\* Lines 177-195: one awaited bot.fetch_user; after a category's last one
\* its field is added and the loop goes on.
LeaderboardFetch(t, outcome) ==
    /\ tasks[t].pc = "lb_fetch"
    /\ LET r == tasks[t]
           e == r.sorted[r.idx]
           leaderboard_entries == IF outcome = "ok"
                                  THEN Append(r.entries, <<r.idx, e[1], e[2]>>)
                                  ELSE r.entries
           done == [r EXCEPT !.entries = <<>>, !.sorted = <<>>, !.idx = 0,
                             !.processed = @ \cup {r.c},
                             !.embed = IF leaderboard_entries # <<>>
                                       THEN Append(@, <<r.c, leaderboard_entries>>)
                                       ELSE @]
       IN tasks' = [tasks EXCEPT ![t] =
              IF outcome = "HTTPException"
              THEN [IdleTask EXCEPT !.cmd = "leaderboard", !.err = "HTTPException"]
              ELSE IF r.idx < Len(r.sorted)
              THEN [r EXCEPT !.idx = @ + 1, !.entries = leaderboard_entries]
              ELSE LbAdvance(leaderboards, done)]
    /\ UNCHANGED <<leaderboards, dk_usable, doc, writeQ, nloads, submitted>>

\* ----------------------------------------------------------------- cog_load
\* Lines 197-199, at a restart of the bot: the handlers in flight are gone
\* and the store is whatever the persisted document holds.
cog_load ==
    /\ nloads < MaxLoads
    /\ nloads' = nloads + 1
    /\ leaderboards' = doc
    /\ dk_usable' = LoadedUsable(Len(doc))
    /\ tasks' = [t \in Tasks |->
           IF tasks[t].pc = "idle" THEN tasks[t]
           ELSE [IdleTask EXCEPT !.cmd = tasks[t].cmd, !.err = "Cancelled"]]
    /\ writeQ' = <<>>
    /\ submitted' = [p \in Categories \X Users |->
           LET kept == UserScores(doc, p[1], p[2]) \ {NaN}
           IN IF kept = {} THEN 0 ELSE CHOOSE x \in kept : \A y \in kept : x >= y]
    /\ UNCHANGED doc

Next ==
    \/ \E t \in Tasks, c \in Categories, u \in Users, s \in Scores :
           AddStart(t, c, u, s)
    \/ \E t \in Tasks, c \in Categories, u \in Users \cup {NoUser} :
           DeleteStart(t, c, u)
    \/ \E t \in Tasks : PersistOk(t)
    \/ \E t \in Tasks : PersistFail(t)
    \/ \E t \in Tasks : SendAck(t)
    \/ \E t \in Tasks, c \in Categories : ViewStart(t, c)
    \/ \E t \in Tasks, o \in LookupOutcomes : ViewFetch(t, o)
    \/ \E t \in Tasks, a \in Users, u \in Users \cup {NoUser} : History(t, a, u)
    \/ \E t \in Tasks : LeaderboardStart(t)
    \/ \E t \in Tasks, o \in LookupOutcomes : LeaderboardFetch(t, o)
    \/ cog_load

Spec == Init /\ [][Next]_vars

\* ------------------------------------------------ the view command alone
\* The ranked list of benchmark_view over every store of one category with
\* up to ViewMaxEntries entries (more than the ten it shows), up to
\* ViewMaxNaN of them with a NaN score.
ViewDicts ==
    UNION {{[i \in 1..n |-> <<IntKey(i), f[i]>>] :
               f \in {g \in [1..n -> ViewScores] :
                          Cardinality({i \in 1..n : g[i] = NaN}) <= ViewMaxNaN}} :
               n \in 0..ViewMaxEntries}

InitView ==
    /\ \E d \in ViewDicts : leaderboards = <<<<"cpu", d>>>>
    /\ dk_usable = LoadedUsable(Len(leaderboards))
    /\ doc = StrKeyDict(leaderboards)
    /\ tasks = [t \in Tasks |-> IdleTask]
    /\ writeQ = <<>>
    /\ nloads = 0
    /\ submitted = [p \in Categories \X Users |-> 0]

NextView == \E t \in Tasks, c \in Categories : ViewStart(t, c)

SpecView == InitView /\ [][NextView]_vars

\* ================================================================== claims
AckReplies == {"added", "high_score", "deleted_user", "deleted_category"}

\* C1: after adds with no delete in between, the score stored for each
\* (category, user) pair is the highest score that user submitted there
\* (stated for the pairs with a number submitted).
C1_StoredIsBestSubmitted ==
    \A c \in Categories, u \in Users :
        submitted[<<c, u>>] # 0 =>
            UserScores(leaderboards, c, u) = {submitted[<<c, u>>]}

\* The add command started by invocation t in this step.
C2_AddStep(t) ==
    LET r == tasks'[t]
        accepted == r.pc = "persist"
    IN /\ accepted <=> (\A p \in UserScores(leaderboards, r.c, r.u) : Gt(r.s, p))
       /\ ~accepted => /\ r.reply = "rejected"
                       /\ leaderboards' = leaderboards
                       /\ doc' = doc
                       /\ writeQ' = writeQ

\* C2: an add is accepted exactly when the pair has no prior entry or the
\* new score is strictly greater than the prior one; a rejected add leaves
\* the store and the persisted document unchanged and calls no persist.
C2_AcceptedIffHigher ==
    [][\A t \in Tasks :
          (tasks[t].cmd = "none" /\ tasks'[t].cmd = "add") => C2_AddStep(t)]_vars

\* C3: the ranked list of the view command is sorted non-increasing by score
\* (no entry is ranked above one with a greater score) and holds exactly
\* min(10, number of entries of the category) of the category's entries,
\* none of the entries left out scoring higher; the "No scores found" reply
\* is given exactly for no entries.
C3_TopSortedAndSized ==
    \A t \in Tasks :
        /\ tasks[t].pc = "view_fetch" =>
             LET top == tasks[t].sorted
                 scores == CatGet(leaderboards, tasks[t].c)
                 rest == {i \in 1..Len(scores) :
                              \A j \in 1..Len(top) : top[j] # scores[i]}
             IN /\ Len(top) = Min(ViewLimit, Len(scores))
                /\ \A i, j \in 1..Len(top) : i < j => ~Lt(top[i][2], top[j][2])
                /\ \A i, j \in 1..Len(top) : i # j => top[i] # top[j]
                /\ \A i \in 1..Len(top) : \E j \in 1..Len(scores) : scores[j] = top[i]
                /\ \A i \in rest, j \in 1..Len(top) : ~Gt(scores[i][2], top[j][2])
        /\ (tasks[t].cmd = "view" /\ tasks[t].reply = "no_scores") =>
             (~CatHas(leaderboards, tasks[t].c)
                 \/ CatGet(leaderboards, tasks[t].c) = <<>>)

\* The steps of invocation t from its mutation to its reply.
C4_Step(t) ==
    /\ (tasks[t].cmd = "none" /\ tasks'[t].pc = "persist") =>
          /\ tasks'[t].snap = StrKeyDict(leaderboards')
          /\ leaderboards' # leaderboards
          /\ tasks'[t].cmd = "add" =>
                Get(CatGet(tasks'[t].snap, tasks'[t].c), StrKey(IntKey(tasks'[t].u)))
                    = tasks'[t].s
          /\ tasks'[t].ack = "deleted_category" =>
                ~Has(tasks'[t].snap, tasks'[t].c)
    /\ (~tasks[t].written /\ tasks'[t].written) => doc' = tasks[t].snap
    /\ (tasks'[t].pc = "send" \/ tasks'[t].reply \in AckReplies) =>
          /\ tasks'[t].written
          /\ tasks[t].pc \in {"persist", "send"} \/ tasks[t].reply \in AckReplies
    /\ (tasks[t].reply = "none" /\ tasks'[t].reply \in AckReplies) =>
          tasks[t].written /\ tasks[t].pc = "send"

\* C4: a mutation's success reply is sent only after the write of the store
\* holding that mutation has completed: the value handed to the write is the
\* whole store as the mutation left it, the write puts that value in the
\* document, and only a written invocation reaches its reply.
C4_WriteThenAcknowledge == [][\A t \in Tasks : C4_Step(t)]_vars

C4_Witness ==
    \E t1, t2 \in Tasks :
        /\ tasks[t1].reply = "deleted_category" /\ tasks[t1].written
        /\ tasks[t2].reply = "high_score" /\ tasks[t2].written

\* C5: when the durable write of an add or delete fails, no success reply
\* is sent and, once the failed operation has ended, the store holds no
\* mutation that the persisted document lacks.
C5_FailedWriteRolledBack ==
    \A t \in Tasks :
        tasks[t].err = "PersistenceFailure" =>
            /\ tasks[t].reply = "none"
            /\ (writeQ = <<>>) => StrKeyDict(leaderboards) = doc

\* A delete command started by invocation t in this step on a category the store lacks.
C6_Step(t) ==
    (/\ tasks[t].cmd = "none"
     /\ tasks'[t].cmd = "delete"
     /\ ~CatHas(leaderboards, tasks'[t].c)) =>
        /\ tasks'[t].reply = "no_leaderboard"
        /\ tasks'[t].pc = "idle"
        /\ leaderboards' = leaderboards
        /\ doc' = doc
        /\ writeQ' = writeQ

\* C6: a delete of a category that is not in the store answers NotFound,
\* leaves the store unchanged and calls no persist, with or without a user
\* argument.
C6_DeleteMissingIsNotFound == [][\A t \in Tasks : C6_Step(t)]_vars

C6_Witness ==
    \E t1, t2 \in Tasks :
        /\ tasks[t1].reply = "no_leaderboard" /\ tasks[t1].u = NoUser
        /\ tasks[t2].reply = "no_leaderboard" /\ tasks[t2].u # NoUser
        /\ leaderboards # <<>>

\* C7: a leaderboard query that runs while adds and deletes are handled ends
\* without error, and what it ranked is the store's view at one instant.
C7_ConsistentSnapshot ==
    \A t \in Tasks :
        tasks[t].cmd = "leaderboard" =>
            /\ tasks[t].err # "RuntimeError"
            /\ tasks[t].consistent

\* C8: a user lookup that fails in any way only leaves that user's entry
\* out: the view or leaderboard response is still sent.
C8_LookupFailureSkipsEntry ==
    \A t \in Tasks :
        tasks[t].cmd \in {"view", "leaderboard"} => tasks[t].err # "HTTPException"

\* The history command run by invocation t in this step.
C9_Step(t) ==
    LET r == tasks'[t]
        got == {r.embed[i] : i \in 1..Len(r.embed)}
        stored == {<<c, p>> \in Categories \X Scores :
                       p \in UserScores(leaderboards, c, r.u)}
    IN /\ got = stored
       /\ Len(r.embed) = Cardinality({c \in Categories :
                                         UserScores(leaderboards, c, r.u) # {}})
       /\ (r.reply = "no_history") <=> (stored = {})
       /\ leaderboards' = leaderboards
       /\ doc' = doc

\* C9: history of user u lists exactly the categories in which u has a
\* stored score, each once with that score, and leaves the store unchanged.
C9_HistoryExact ==
    [][\A t \in Tasks :
          (tasks[t].cmd = "none" /\ tasks'[t].cmd = "history") => C9_Step(t)]_vars

\* C10: after a restart the store holds the persisted entries keyed so that
\* the lookup of an add finds the user's score; the store never holds two
\* entries for one (category, user) pair.
C10_KeysRoundTrip ==
    \A c \in CatKeys(leaderboards) :
        LET d == CatGet(leaderboards, c)
        IN \A i \in 1..Len(d) : Get(d, IntKey(UserOf(d[i][1]))) = d[i][2]

====
